---- MODULE Spec2Model ----
(***************************************************************************)
(* The assistant streaming-chat client of research_mentor:                 *)
(*   web/src/store/useChatStore.ts      the zustand chat store             *)
(*   web/src/components/MentorChat.tsx  handleSubmit, the streaming turn   *)
(*                                                                         *)
(* Text is a sequence of tokens.  A token is one character ("x", " ",      *)
(* "\n", "<", "/", ">", "{", "}", "\\") or one fixed literal of the source *)
(* that the code never looks inside ("thinking", "data:", "Error: ", the   *)
(* placeholder texts, the JSON type names).                                *)
(***************************************************************************)
EXTENDS Integers, Sequences, FiniteSets, TLC

VARIABLES
    store,      \* ChatState: the fields of useChatStore
    clock,      \* the value Date.now() returns
    turns,      \* per handleSubmit call: position, locals, response body in flight, record
    clicks,     \* how often the user has used the conversation controls
    last        \* the last operation applied to the store and the store before it

vars == <<store, clock, turns, clicks, last>>

-----------------------------------------------------------------------------
(* Bounds of the model                                                     *)

MaxClicks == 1      \* uses of the conversation controls in one behaviour of Spec
MaxClock  == 2      \* largest value of Date.now()
MaxFrames == 3      \* text frames in one response body of SpecStream
MaxCuts   == 2      \* chunk boundaries inside the marked-up text of SpecStream
MaxSends  == 3      \* messages with images in one behaviour of SpecImages
MaxOps    == 2      \* store operations applied in one behaviour of SpecStore
MaxSegments == 6    \* segments of the buffered content in SpecExtract

-----------------------------------------------------------------------------
(* Text                                                                    *)

NL == "\n"

IsSpace(c) == c \in {" ", NL}

RECURSIVE TrimStart(_)
TrimStart(s) ==
    IF s = <<>> THEN s
    ELSE IF IsSpace(Head(s)) THEN TrimStart(Tail(s)) ELSE s

RECURSIVE TrimEnd(_)
TrimEnd(s) ==
    IF s = <<>> THEN s
    ELSE IF IsSpace(s[Len(s)]) THEN TrimEnd(SubSeq(s, 1, Len(s) - 1)) ELSE s

\* String.prototype.trim
Trim(s) == TrimEnd(TrimStart(s))

\* s.slice(i - 1): the text from position i on
From(s, i) == SubSeq(s, i, Len(s))

RECURSIVE Concat(_)
Concat(ss) == IF ss = <<>> THEN <<>> ELSE Head(ss) \o Concat(Tail(ss))

\* the word of a thinking tag, matched with the i flag
IsThinkingWord(c) == c \in {"thinking", "THINKING"}

\* /<thinking>/i matches at position i
OpenTagAt(s, i) ==
    /\ i + 2 <= Len(s)
    /\ s[i] = "<" /\ IsThinkingWord(s[i + 1]) /\ s[i + 2] = ">"

\* /<\/thinking>/i matches at position i
CloseTagAt(s, i) ==
    /\ i + 3 <= Len(s)
    /\ s[i] = "<" /\ s[i + 1] = "/" /\ IsThinkingWord(s[i + 2]) /\ s[i + 3] = ">"

RECURSIVE StripFrom(_, _)
StripFrom(s, i) ==
    IF i > Len(s) THEN <<>>
    ELSE IF CloseTagAt(s, i) THEN StripFrom(s, i + 4)
    ELSE IF OpenTagAt(s, i) THEN StripFrom(s, i + 3)
    ELSE <<s[i]>> \o StripFrom(s, i + 1)

\* text.replace(/<\/?thinking>/gi, '')
stripThinkingTags(text) == StripFrom(text, 1)

\* the start positions >= from at which /<thinking>[\s\S]*?<\/thinking>/i matches
SpanStarts(s, from) ==
    {i \in from..Len(s) : OpenTagAt(s, i) /\ \E j \in (i + 3)..Len(s) : CloseTagAt(s, j)}

Min(S) == CHOOSE x \in S : \A y \in S : x <= y

\* the leftmost match from position `from`: [start, close], close the position of the
\* first closing tag after the opening tag (the quantifier *? is lazy)
FirstSpan(s, from) ==
    LET i == Min(SpanStarts(s, from))
        j == Min({k \in (i + 3)..Len(s) : CloseTagAt(s, k)})
    IN  [start |-> i, close |-> j]

HasSpan(s) == SpanStarts(s, 1) # {}

\* match(/<thinking>([\s\S]*?)<\/thinking>/i)[1]
SpanInner(s) ==
    LET m == FirstSpan(s, 1) IN SubSeq(s, m.start + 3, m.close - 1)

\* replace(/<thinking>[\s\S]*?<\/thinking>/i, ''): the first span removed
RemoveFirstSpan(s) ==
    IF ~HasSpan(s) THEN s
    ELSE LET m == FirstSpan(s, 1)
         IN  SubSeq(s, 1, m.start - 1) \o From(s, m.close + 4)

RECURSIVE RemoveSpansFrom(_, _)
RemoveSpansFrom(s, from) ==
    IF SpanStarts(s, from) = {} THEN From(s, from)
    ELSE LET m == FirstSpan(s, from)
         IN  SubSeq(s, from, m.start - 1) \o RemoveSpansFrom(s, m.close + 4)

\* replace(/<thinking>[\s\S]*?<\/thinking>/gi, ''): every span removed
RemoveAllSpans(s) == RemoveSpansFrom(s, 1)

-----------------------------------------------------------------------------
(* useChatStore.ts: the store                                              *)

Null == 0                     \* currentConversationId: null
None == <<>>                  \* an optional field that is undefined
Some(x) == <<x>>              \* an optional field holding x

Msg(role, content, thinking, attachments, toolCalls) ==
    [role |-> role, content |-> content, thinking |-> thinking,
     attachments |-> attachments, toolCalls |-> toolCalls]

greeting ==
    Msg("ai", <<"Hello! I'm your research mentor. How can I help you refine your hypothesis today?">>,
        None, <<>>, <<>>)

NoContent == <<"(No content)">>
UntitledChat == [text |-> "Untitled chat", hhmm |-> 0]

\* `chat-${Date.now()}`
ChatId(now) == now

\* `New chat ${hh}:${mm}`: the minute of the clock, two clock values to the minute
generatePlaceholderTitle(now) == [text |-> "New chat", hhmm |-> now \div 2]

\* convos.findIndex(c => c.id === id), 0 for -1
FindIndex(convos, id) ==
    IF \E i \in 1..Len(convos) : convos[i].id = id
    THEN Min({i \in 1..Len(convos) : convos[i].id = id})
    ELSE 0

\* an upsert that inserts without looking for the id
upsertAlwaysAppends(convos, convo) == Append(convos, convo)

upsertConversation(convos, convo) ==
    LET idx == FindIndex(convos, convo.id)
    IN  IF idx = 0 THEN Append(convos, convo)
        ELSE [convos EXCEPT ![idx] = convo]

\* a title lookup that forgets the stored title
TitleOfForgets(convos, id) == UntitledChat

\* existing?.title || 'Untitled chat'
TitleOf(convos, id) ==
    LET idx == FindIndex(convos, id)
    IN  IF idx = 0 \/ convos[idx].title.text = "" THEN UntitledChat
        ELSE convos[idx].title

\* existing?.createdAt || Date.now()
CreatedAtOf(convos, id, now) ==
    LET idx == FindIndex(convos, id)
    IN  IF idx = 0 \/ convos[idx].createdAt = 0 THEN now ELSE convos[idx].createdAt

InitialStore ==
    [messages |-> <<greeting>>,
     isLoading |-> FALSE,
     isStreaming |-> FALSE,
     streamingContent |-> <<>>,
     streamingReasoning |-> <<>>,
     streamingToolCalls |-> <<>>,
     conversations |-> <<>>,
     currentConversationId |-> Null]

setLoading(s, v) == [s EXCEPT !.isLoading = v]

setStreaming(s, v) ==
    [s EXCEPT !.isStreaming = v,
              !.streamingContent = IF v THEN <<>> ELSE s.streamingContent,
              !.streamingReasoning = IF v THEN <<>> ELSE s.streamingReasoning,
              !.streamingToolCalls = IF v THEN <<>> ELSE s.streamingToolCalls]

appendContent(s, chunk) == [s EXCEPT !.streamingContent = s.streamingContent \o chunk]

appendReasoning(s, chunk) == [s EXCEPT !.streamingReasoning = s.streamingReasoning \o chunk]

addToolCall(s, toolCall) ==
    [s EXCEPT !.streamingToolCalls = Append(s.streamingToolCalls, toolCall)]

\* result: None when the argument is undefined or the empty string
updateToolCall(s, name, status, result) ==
    [s EXCEPT !.streamingToolCalls =
        [i \in 1..Len(s.streamingToolCalls) |->
            LET tc == s.streamingToolCalls[i]
            IN  IF tc.name = name
                THEN [tc EXCEPT !.status = status,
                                !.result = IF result = None \/ result = Some(<<>>)
                                           THEN tc.result ELSE result]
                ELSE tc]]

UserCount(messages) == Cardinality({i \in 1..Len(messages) : messages[i].role = "user"})

addUserMessage(s, content, attachments, now) ==
    LET hasConversation == s.currentConversationId # Null
        convoId == IF hasConversation THEN s.currentConversationId ELSE ChatId(now)
        isFirstUser == UserCount(s.messages) = 0
        title == IF isFirstUser THEN generatePlaceholderTitle(now)
                 ELSE TitleOf(s.conversations, convoId)
        updatedMessages == Append(s.messages, Msg("user", content, None, attachments, <<>>))
        convo == [id |-> convoId,
                  title |-> title,
                  messages |-> updatedMessages,
                  createdAt |-> IF hasConversation
                                THEN CreatedAtOf(s.conversations, convoId, now)
                                ELSE now,
                  updatedAt |-> now]
    IN  [s EXCEPT !.messages = updatedMessages,
                  !.currentConversationId = convoId,
                  !.conversations = upsertConversation(s.conversations, convo)]

addAiMessage(s, content, thinking, now) ==
    LET convoId == IF s.currentConversationId # Null THEN s.currentConversationId
                   ELSE ChatId(now)
        updatedMessages == Append(s.messages, Msg("ai", content, thinking, <<>>, <<>>))
        convo == [id |-> convoId,
                  title |-> TitleOf(s.conversations, convoId),
                  messages |-> updatedMessages,
                  createdAt |-> CreatedAtOf(s.conversations, convoId, now),
                  updatedAt |-> now]
    IN  [s EXCEPT !.messages = updatedMessages,
                  !.currentConversationId = convoId,
                  !.conversations = upsertConversation(s.conversations, convo)]

\* a guard that lets every call of finalizeStream through
HasBufferedAlways(s) == TRUE

\* the guard of finalizeStream
HasBuffered(s) ==
    \/ Trim(s.streamingContent) # <<>>
    \/ Trim(s.streamingReasoning) # <<>>
    \/ Len(s.streamingToolCalls) > 0

\* a final message that takes the buffers untrimmed
FinalMessageUntrimmed(s) ==
    Msg("ai",
        IF s.streamingContent = <<>> THEN NoContent ELSE s.streamingContent,
        IF s.streamingReasoning = <<>> THEN None ELSE Some(s.streamingReasoning),
        <<>>,
        s.streamingToolCalls)

\* the message finalizeStream builds from the buffers
FinalMessage(s) ==
    LET content0 == Trim(s.streamingContent)
        reasoning0 == Trim(s.streamingReasoning)
        extract == reasoning0 = <<>> /\ content0 # <<>> /\ HasSpan(content0)
        finalReasoning == IF extract THEN Trim(SpanInner(content0)) ELSE reasoning0
        finalContent == IF extract THEN Trim(RemoveAllSpans(content0)) ELSE content0
    IN  Msg("ai",
            IF finalContent = <<>> THEN NoContent ELSE finalContent,
            IF finalReasoning = <<>> THEN None ELSE Some(finalReasoning),
            <<>>,
            s.streamingToolCalls)

\* a finalizeStream that appends the message and leaves the buffers as they are
finalizeStreamKeepsBuffers(s, now) ==
    IF ~HasBuffered(s) THEN s
    ELSE [addAiMessage(s, FinalMessage(s).content, FinalMessage(s).thinking, now)
             EXCEPT !.isStreaming = FALSE]

finalizeStream(s, now) ==
    IF ~HasBuffered(s) THEN s
    ELSE
    LET updatedMessages == Append(s.messages, FinalMessage(s))
        convoId == IF s.currentConversationId # Null THEN s.currentConversationId
                   ELSE ChatId(now)
        convo == [id |-> convoId,
                  title |-> TitleOf(s.conversations, convoId),
                  messages |-> updatedMessages,
                  createdAt |-> CreatedAtOf(s.conversations, convoId, now),
                  updatedAt |-> now]
    IN  [s EXCEPT !.messages = updatedMessages,
                  !.streamingContent = <<>>,
                  !.streamingReasoning = <<>>,
                  !.streamingToolCalls = <<>>,
                  !.isStreaming = FALSE,
                  !.currentConversationId = convoId,
                  !.conversations = upsertConversation(s.conversations, convo)]

startNewChat(s) ==
    [s EXCEPT !.messages = <<greeting>>,
              !.isLoading = FALSE,
              !.isStreaming = FALSE,
              !.streamingContent = <<>>,
              !.streamingReasoning = <<>>,
              !.streamingToolCalls = <<>>,
              !.currentConversationId = Null]

\* a loadConversation that switches the current id and keeps the active messages
loadConversationKeepsMessages(s, id) ==
    IF FindIndex(s.conversations, id) = 0 THEN s
    ELSE [startNewChat(s) EXCEPT !.messages = s.messages, !.currentConversationId = id]

loadConversation(s, id) ==
    LET idx == FindIndex(s.conversations, id)
    IN  IF idx = 0 THEN s
        ELSE [s EXCEPT !.messages = IF Len(s.conversations[idx].messages) > 0
                                    THEN s.conversations[idx].messages
                                    ELSE <<greeting>>,
                       !.currentConversationId = s.conversations[idx].id,
                       !.isLoading = FALSE,
                       !.isStreaming = FALSE,
                       !.streamingContent = <<>>,
                       !.streamingReasoning = <<>>,
                       !.streamingToolCalls = <<>>]

\* a deleteConversation that resets the active chat whatever the id
deleteConversationAlwaysResets(s, id) ==
    [startNewChat(s) EXCEPT
        !.conversations = SelectSeq(s.conversations, LAMBDA c : c.id # id)]

deleteConversation(s, id) ==
    LET remaining == SelectSeq(s.conversations, LAMBDA c : c.id # id)
    IN  IF s.currentConversationId = id
        THEN [s EXCEPT !.conversations = remaining,
                       !.currentConversationId = Null,
                       !.messages = <<greeting>>,
                       !.isLoading = FALSE,
                       !.isStreaming = FALSE,
                       !.streamingContent = <<>>,
                       !.streamingReasoning = <<>>,
                       !.streamingToolCalls = <<>>]
        ELSE [s EXCEPT !.conversations = remaining]

renameConversation(s, id, title, now) ==
    [s EXCEPT !.conversations =
        [i \in 1..Len(s.conversations) |->
            IF s.conversations[i].id = id
            THEN [s.conversations[i] EXCEPT !.title = title, !.updatedAt = now]
            ELSE s.conversations[i]]]

\* persist(..., { name: 'mentor-chat-history' }) without partialize: the stored
\* entry holds every data field of the state
Persisted(s) == [state |-> s, version |-> 0]

\* the page is loaded again: the stored fields are merged over the initial state
Rehydrate(stored) ==
    [f \in DOMAIN InitialStore |->
        IF f \in DOMAIN stored.state THEN stored.state[f] ELSE InitialStore[f]]

\* the ids of a list of attachments, first occurrence of each kept
RECURSIVE Unique(_)
Unique(atts) ==
    IF atts = <<>> THEN <<>>
    ELSE LET init == Unique(SubSeq(atts, 1, Len(atts) - 1))
             x == atts[Len(atts)]
         IN  IF \E i \in 1..Len(init) : init[i] = x THEN init ELSE Append(init, x)

ContextCap == 6

\* a slice that keeps the oldest entries
FirstN(s, n) == IF Len(s) <= n THEN s ELSE SubSeq(s, 1, n)

\* unique.slice(-6)
LastN(s, n) == IF Len(s) <= n THEN s ELSE SubSeq(s, Len(s) - n + 1, Len(s))

\* one entry per described image; the text block of an image is a function of the image
buildImageContext(s, pending) ==
    LET existing == Concat([i \in 1..Len(s.messages) |-> s.messages[i].attachments])
    IN  LastN(Unique(existing \o pending), ContextCap)

-----------------------------------------------------------------------------
(* The wire: frames `data: <json>\n\n` (POST /api/chat/stream)             *)

Marker == <<"data:", " ">>          \* 'data: '
Delimiter == <<NL, NL>>             \* '\n\n'

\* JSON string escaping, as the server's encoder does it
RECURSIVE Escape(_)
Escape(t) ==
    IF t = <<>> THEN <<>>
    ELSE IF Head(t) = NL THEN <<"\\", "n">> \o Escape(Tail(t))
    ELSE IF Head(t) = "\\" THEN <<"\\", "\\">> \o Escape(Tail(t))
    ELSE <<Head(t)>> \o Escape(Tail(t))

\* a frame on the wire; raw frames carry their line as is
EncodeFrame(f) ==
    IF f.type = "raw" THEN f.content \o Delimiter
    ELSE Marker \o <<"{", f.type>> \o Escape(f.content) \o <<"}">> \o Delimiter

RECURSIVE EncodeFrames(_)
EncodeFrames(fs) ==
    IF fs = <<>> THEN <<>> ELSE EncodeFrame(Head(fs)) \o EncodeFrames(Tail(fs))

\* the escapes of a JSON string body are well formed
RECURSIVE EscapesOk(_)
EscapesOk(t) ==
    IF t = <<>> THEN TRUE
    ELSE IF Head(t) = "\\"
         THEN /\ Len(t) >= 2
              /\ t[2] \in {"n", "\\"}
              /\ EscapesOk(Tail(Tail(t)))
    ELSE Head(t) \notin {NL, "{", "}"} /\ EscapesOk(Tail(t))

RECURSIVE Unescape(_)
Unescape(t) ==
    IF t = <<>> THEN <<>>
    ELSE IF Head(t) = "\\"
         THEN <<IF t[2] = "n" THEN NL ELSE "\\">> \o Unescape(Tail(Tail(t)))
    ELSE <<Head(t)>> \o Unescape(Tail(t))

\* JSON.parse(text): ok FALSE when it throws
JSONParse(text) ==
    IF /\ Len(text) >= 3
       /\ text[1] = "{"
       /\ text[Len(text)] = "}"
       /\ text[2] \notin {"{", "}", "\\", NL, " "}
       /\ EscapesOk(SubSeq(text, 3, Len(text) - 1))
    THEN [ok |-> TRUE, type |-> text[2],
          content |-> Unescape(SubSeq(text, 3, Len(text) - 1))]
    ELSE [ok |-> FALSE, type |-> "", content |-> <<>>]

\* the position of the first '\n\n' in s, 0 when there is none
DelimiterAt(s) ==
    LET hits == {i \in 1..(Len(s) - 1) : s[i] = NL /\ s[i + 1] = NL}
    IN  IF hits = {} THEN 0 ELSE Min(hits)

\* buffer.split('\n\n')
RECURSIVE Split(_)
Split(s) ==
    LET i == DelimiterAt(s)
    IN  IF i = 0 THEN <<s>>
        ELSE <<SubSeq(s, 1, i - 1)>> \o Split(From(s, i + 2))

\* a read loop that forgets the text after the last delimiter
KeptBufferDropped(pieces) == <<>>

\* lines.pop() || "": the text after the last delimiter stays in the buffer
KeptBuffer(pieces) == pieces[Len(pieces)]

\* the lines left after lines.pop()
CompleteLines(pieces) == SubSeq(pieces, 1, Len(pieces) - 1)

\* line.startsWith('data: ')
HasMarker(line) == Len(line) >= 2 /\ SubSeq(line, 1, 2) = Marker

ErrorPrefix == <<"Error: ">>

\* an error message without the text of the frame
ErrorMessageNoText(content) == ErrorPrefix

\* `Error: ${event.content}`
ErrorMessage(content) == ErrorPrefix \o content

\* a loop body that buffers the lines it cannot decode as content
HandleLineBuffersBadLines(s, line, now) ==
    IF ~HasMarker(line) THEN appendContent(s, line)
    ELSE LET event == JSONParse(From(line, 3))
         IN  IF ~event.ok THEN appendContent(s, line)
             ELSE IF event.type = "reasoning" /\ event.content # <<>>
                  THEN appendReasoning(s, event.content)
             ELSE IF event.type = "content" /\ event.content # <<>>
                  THEN appendContent(s, stripThinkingTags(event.content))
             ELSE IF event.type = "done"
                  THEN finalizeStream(s, now)
             ELSE IF event.type = "error"
                  THEN setStreaming(addAiMessage(s, ErrorMessage(event.content), None, now), FALSE)
             ELSE s

\* the body of the for loop of handleSubmit for one line: the store after it
HandleLine(s, line, now) ==
    IF ~HasMarker(line) THEN s
    ELSE LET event == JSONParse(From(line, 3))
         IN  IF ~event.ok THEN s
             ELSE IF event.type = "reasoning" /\ event.content # <<>>
                  THEN appendReasoning(s, event.content)
             ELSE IF event.type = "content" /\ event.content # <<>>
                  THEN appendContent(s, stripThinkingTags(event.content))
             ELSE IF event.type = "done"
                  THEN finalizeStream(s, now)
             ELSE IF event.type = "error"
                  THEN setStreaming(addAiMessage(s, ErrorMessage(event.content), None, now), FALSE)
             ELSE s

\* the event a line decodes to, for the record of what a turn has handled
EventOf(line) ==
    IF ~HasMarker(line) THEN [type |-> "skipped", content |-> line]
    ELSE LET event == JSONParse(From(line, 3))
         IN  IF ~event.ok THEN [type |-> "malformed", content |-> line]
             ELSE [type |-> event.type, content |-> event.content]

\* the for loop over the complete lines of one read:
\* acc = [store, events], events the record of each handled line and what it appended
RECURSIVE HandleLines(_, _, _)
HandleLines(acc, lines, now) ==
    IF lines = <<>> THEN acc
    ELSE LET s1 == HandleLine(acc.store, Head(lines), now)
             ev == EventOf(Head(lines))
             rec == [type |-> ev.type, content |-> ev.content,
                     appended |-> SubSeq(s1.messages, Len(acc.store.messages) + 1,
                                         Len(s1.messages))]
         IN  HandleLines([store |-> s1, events |-> Append(acc.events, rec)],
                         Tail(lines), now)

\* parseResponse(fullResponse)
parseResponse(fullResponse) ==
    IF HasSpan(fullResponse)
    THEN [thinking |-> Some(Trim(SpanInner(fullResponse))),
          content |-> Trim(RemoveFirstSpan(fullResponse))]
    ELSE [thinking |-> None, content |-> fullResponse]

\* explicitThinking || parsedThinking
ThinkingOf(json) ==
    IF json.reasoning # None /\ json.reasoning # Some(<<>>) THEN json.reasoning
    ELSE parseResponse(json.response).thinking

FallbackFailure == <<"Sorry, I encountered an error connecting to the backend.">>

\* [documentContext, imageContext ? `Images available this chat:\n...` : ""]
\*     .filter(Boolean).join("\n\n")
combinedContext(documentContext, imageContext) ==
    LET images == IF imageContext = <<>> THEN <<>>
                  ELSE <<"Images available this chat:", NL>> \o imageContext
    IN  IF documentContext = <<>> THEN images
        ELSE IF images = <<>> THEN documentContext
        ELSE documentContext \o Delimiter \o images

buildContentParts(text, context, images) ==
    (IF context # <<>>
     THEN <<[type |-> "text", body |-> <<"Context:", NL>> \o context]>>
     ELSE <<>>)
    \o <<[type |-> "text", body |-> text]>>
    \o [i \in 1..Len(images) |-> [type |-> "image_url", body |-> <<images[i]>>]]

\* the JSON body of both requests
RequestBody(userMsg, context, images) ==
    [prompt |-> userMsg,
     document_context |-> IF context = <<>> THEN None ELSE Some(context),
     content_parts |-> buildContentParts(userMsg, context, images)]

-----------------------------------------------------------------------------
(* MentorChat.tsx: handleSubmit, one turn per call                         *)

\* the calls of handleSubmit: one, and a second one that can overlap it
Turns == {1, 2}

IdleTurn ==
    [pc |-> "idle",            \* idle, awaitStream, reading, awaitFallback, returned
     userMsg |-> <<>>,         \* const userMsg
     images |-> <<>>,          \* const imagesForMessage
     context |-> <<>>,         \* const combinedContext
     conversation |-> Null,    \* the conversation addUserMessage appended userMsg to
     response |-> "none",      \* how the streaming endpoint answered
     script |-> <<>>,          \* the frames of the accepted response body
     wire |-> <<>>,            \* the part of the response body not yet read
     buffer |-> <<>>,          \* let buffer
     requests |-> <<>>,        \* the HTTP requests this call has issued, in order
     events |-> <<>>,          \* the lines handled so far, each with what it appended
     produced |-> <<>>]        \* the messages this call appended after the user message

\* the messages an operation appended
Appended(before, after) ==
    SubSeq(after.messages, Len(before.messages) + 1, Len(after.messages))

StreamRequest(body) == [endpoint |-> "/api/chat/stream", body |-> body]
\* a second request that goes to the streaming endpoint again
FallbackRequestRetriesStream(body) == [endpoint |-> "/api/chat/stream", body |-> body]
FallbackRequest(body) == [endpoint |-> "/api/chat", body |-> body]

\* the submit button: disabled={!input.trim() || isLoading || isStreaming}
SubmitEnabled(s, input) == Trim(input) # <<>> /\ ~s.isLoading /\ ~s.isStreaming

\* lines 200-227: up to the await of the streaming fetch
Submit(t, input, pendingImages, documentContext) ==
    /\ turns[t].pc = "idle"
    /\ IF t = 1 THEN TRUE ELSE turns[t - 1].pc # "idle"
    /\ SubmitEnabled(store, input)
    /\ LET s1 == setLoading(addUserMessage(store, input, pendingImages, clock), TRUE)
           ctx == combinedContext(documentContext, buildImageContext(s1, pendingImages))
       IN  /\ store' = s1
           /\ turns' = [turns EXCEPT ![t] =
                           [IdleTurn EXCEPT !.pc = "awaitStream",
                                            !.userMsg = input,
                                            !.images = pendingImages,
                                            !.context = ctx,
                                            !.conversation = s1.currentConversationId,
                                            !.requests =
                                                <<StreamRequest(RequestBody(input, ctx, pendingImages))>>]]
    /\ UNCHANGED <<clock, clicks, last>>

\* an accepted stream that leaves isLoading set
AcceptStreamKeepsLoading(s) == setStreaming(s, TRUE)

\* lines 233-234
AcceptStream(s) == setLoading(setStreaming(s, TRUE), FALSE)

\* lines 229-238: the response is ok and has a body
StreamAccepted(t, script) ==
    /\ turns[t].pc = "awaitStream"
    /\ store' = AcceptStream(store)
    /\ turns' = [turns EXCEPT ![t].pc = "reading",
                                          ![t].response = "accepted",
                                          ![t].script = script,
                                          ![t].wire = EncodeFrames(script)]
    /\ UNCHANGED <<clock, clicks, last>>

\* a fallback request that carries the prompt only
FallbackBodyPromptOnly(turn) == RequestBody(turn.userMsg, <<>>, <<>>)

\* the request body of the fallback, lines 280-284
FallbackBody(turn) == RequestBody(turn.userMsg, turn.context, turn.images)

\* lines 229-231 and 274-285: fetch rejects ("network"), or the response is not ok
\* ("status") or has no body ("nobody"); the catch block issues the fallback request
StreamRejected(t, why) ==
    /\ turns[t].pc = "awaitStream"
    /\ turns' = [turns EXCEPT ![t].pc = "awaitFallback",
                               ![t].response = why,
                               ![t].requests = Append(turns[t].requests,
                                                      FallbackRequest(FallbackBody(turns[t])))]
    /\ UNCHANGED <<store, clock, clicks, last>>

\* lines 241-269: one read that returns n tokens of the body
ReadChunk(t, n) ==
    /\ turns[t].pc = "reading"
    /\ n \in 1..Len(turns[t].wire)
    /\ LET pieces == Split(turns[t].buffer \o SubSeq(turns[t].wire, 1, n))
           lines == CompleteLines(pieces)
           acc == HandleLines([store |-> store, events |-> turns[t].events], lines, clock)
       IN  /\ store' = acc.store
           /\ turns' = [turns
                           EXCEPT ![t].wire = From(turns[t].wire, n + 1),
                                  ![t].buffer = KeptBuffer(pieces),
                                  ![t].events = acc.events,
                                  ![t].produced = turns[t].produced \o Appended(store, acc.store)]
    /\ UNCHANGED <<clock, clicks, last>>

\* an end of the body that is handled like a failed read
ReadDoneFallsBack(t) ==
    /\ turns[t].pc = "reading"
    /\ turns[t].wire = <<>>
    /\ turns' = [turns EXCEPT ![t].pc = "awaitFallback",
                               ![t].buffer = <<>>,
                               ![t].requests = Append(turns[t].requests,
                                                      FallbackRequest(FallbackBody(turns[t])))]
    /\ UNCHANGED <<store, clock, clicks, last>>

\* lines 241-242 and 272: the read reports the end of the body
ReadDone(t) ==
    /\ turns[t].pc = "reading"
    /\ turns[t].wire = <<>>
    /\ LET s1 == finalizeStream(store, clock)
       IN  /\ store' = s1
           /\ turns' = [turns
                           EXCEPT ![t].pc = "returned",
                                  ![t].buffer = <<>>,
                                  ![t].produced = turns[t].produced \o Appended(store, s1)]
    /\ UNCHANGED <<clock, clicks, last>>

\* lines 241 and 274-285: the read rejects; the catch block issues the fallback request
ReadThrows(t) ==
    /\ turns[t].pc = "reading"
    /\ turns' = [turns EXCEPT ![t].pc = "awaitFallback",
                               ![t].wire = <<>>,
                               ![t].buffer = <<>>,
                               ![t].requests = Append(turns[t].requests,
                                                      FallbackRequest(FallbackBody(turns[t])))]
    /\ UNCHANGED <<store, clock, clicks, last>>

\* lines 297-300
FallbackFinally(s) == setLoading(setStreaming(s, FALSE), FALSE)

\* lines 287-294
FallbackSuccess(s, json, now) ==
    addAiMessage(s, parseResponse(json.response).content, ThinkingOf(json), now)

\* lines 287-300: the fallback answers ok with a JSON body
FallbackOk(t, json) ==
    /\ turns[t].pc = "awaitFallback"
    /\ LET s1 == FallbackSuccess(store, json, clock)
       IN  /\ store' = FallbackFinally(s1)
           /\ turns' = [turns EXCEPT
                           ![t].pc = "returned",
                           ![t].produced = turns[t].produced \o Appended(store, s1)]
    /\ UNCHANGED <<clock, clicks, last>>

\* lines 295-300: the fallback fetch rejects, or answers not ok, or its body is no JSON
FallbackFailed(t) ==
    /\ turns[t].pc = "awaitFallback"
    /\ LET s1 == addAiMessage(store, FallbackFailure, None, clock)
       IN  /\ store' = FallbackFinally(s1)
           /\ turns' = [turns EXCEPT
                           ![t].pc = "returned",
                           ![t].produced = turns[t].produced \o Appended(store, s1)]
    /\ UNCHANGED <<clock, clicks, last>>

\* MentorChat.tsx 361: the New button
StartNewChat ==
    /\ clicks < MaxClicks
    /\ clicks' = clicks + 1
    /\ store' = startNewChat(store)
    /\ UNCHANGED <<clock, turns, last>>

\* MentorChat.tsx 344-359: the select lists the stored conversations
LoadConversation(id) ==
    /\ clicks < MaxClicks
    /\ clicks' = clicks + 1
    /\ \E i \in 1..Len(store.conversations) : store.conversations[i].id = id
    /\ store' = loadConversation(store, id)
    /\ UNCHANGED <<clock, turns, last>>

\* MentorChat.tsx 367-375: the delete button of the current conversation
DeleteConversation ==
    /\ clicks < MaxClicks
    /\ clicks' = clicks + 1
    /\ store.currentConversationId # Null
    /\ store' = deleteConversation(store, store.currentConversationId)
    /\ UNCHANGED <<clock, turns, last>>

\* time passes
Tick ==
    /\ clock < MaxClock
    /\ clock' = clock + 1
    /\ UNCHANGED <<store, turns, clicks, last>>

-----------------------------------------------------------------------------
(* Inputs                                                                  *)

Frame(type, content) == [type |-> type, content |-> content]

ReasoningFrame == Frame("reasoning", <<"r">>)
BlankReasoningFrame == Frame("reasoning", <<" ">>)
ContentFrame == Frame("content", <<"x">>)
BlankFrame == Frame("content", <<NL>>)
DoneFrame == Frame("done", <<>>)
ErrorFrame == Frame("error", <<"e">>)

\* "<thinking>X</thinking>Y"
MarkupText == <<"<", "thinking", ">", "X", "<", "/", "thinking", ">", "Y">>

\* the marked-up text in three content frames that cut both tags, and no done frame
SplitMarkupScript ==
    <<Frame("content", SubSeq(MarkupText, 1, 1)),
      Frame("content", SubSeq(MarkupText, 2, 7)),
      Frame("content", SubSeq(MarkupText, 8, 9))>>

\* a line without the marker, and a line whose body JSON.parse rejects
CommentFrame == Frame("raw", <<":", "ping">>)
MalformedFrame == Frame("raw", Marker \o <<"{", "content", "x">>)
BadFrames == {CommentFrame, MalformedFrame}

\* the frames that carry a chunk of text
TextFrames == {ReasoningFrame, BlankReasoningFrame, ContentFrame, BlankFrame}

\* the sequences of at most n frames
Scripts(frames, n) == UNION {[1..k -> frames] : k \in 0..n}

\* how a response body of text frames ends
Endings == {<<>>, <<DoneFrame>>, <<ErrorFrame>>}

\* response bodies that go on after a done or an error frame
LateScripts ==
    {<<ErrorFrame, ContentFrame>>,
     <<DoneFrame, ContentFrame>>,
     <<ContentFrame, ErrorFrame, ContentFrame, DoneFrame>>,
     SplitMarkupScript}


\* the pieces of text cut after the positions in cuts
RECURSIVE Pieces(_, _, _)
Pieces(text, cuts, from) ==
    IF \A c \in cuts : c < from THEN <<From(text, from)>>
    ELSE LET c == Min({d \in cuts : d >= from})
         IN  <<SubSeq(text, from, c)>> \o Pieces(text, cuts, c + 1)

\* the marked-up text streamed as content, in one frame or cut into several, then done
MarkupScripts ==
    {LET ps == Pieces(MarkupText, cuts, 1)
     IN  [i \in 1..Len(ps) |-> Frame("content", ps[i])] \o <<DoneFrame>> :
        cuts \in {c \in SUBSET (1..(Len(MarkupText) - 1)) : Cardinality(c) <= MaxCuts}}

\* response bodies with a line that is skipped, at the start, between text frames
\* and at the end
BadFrameScripts ==
    UNION {{<<b>>,
            <<b, ContentFrame, DoneFrame>>,
            <<ContentFrame, b, ContentFrame>>,
            <<ReasoningFrame, b, ContentFrame, DoneFrame>>,
            <<ContentFrame, b>>,
            <<b, ErrorFrame>>} : b \in BadFrames}

\* the response bodies of SpecStream
StreamScripts ==
    {body \o ending : body \in Scripts(TextFrames, MaxFrames), ending \in Endings}
        \cup LateScripts \cup MarkupScripts \cup BadFrameScripts

\* the response bodies of Spec
AppScripts ==
    {<<>>,
     <<ContentFrame>>,
     <<ContentFrame, DoneFrame>>,
     <<ContentFrame, ErrorFrame>>}

\* the read sizes that end a read at the end of a frame
WholeFrames(wire) ==
    {n \in 1..Len(wire) : n >= 2 /\ wire[n - 1] = NL /\ wire[n] = NL}

Inputs == {<<"q">>}
PendingImages == {<<"img1">>}
DocumentContexts == {<<"doc">>}
Rejections == {"status", "nobody", "network"}
FallbackReplies ==
    {[response |-> <<"a">>, reasoning |-> None],
     [response |-> <<"a">>, reasoning |-> Some(<<"r">>)]}

\* the store a turn leaves behind whose read threw after a content chunk and whose
\* fallback succeeded: the chunk is still in the buffer
StaleStore ==
    FallbackFinally(
        FallbackSuccess(
            appendContent(
                AcceptStream(setLoading(addUserMessage(InitialStore, <<"q">>, <<>>, 1), TRUE)),
                <<"x">>),
            [response |-> <<"a">>, reasoning |-> None], 1))

\* a store with two conversations, the second one current
TwoChatStore ==
    addUserMessage(
        startNewChat(
            addAiMessage(addUserMessage(InitialStore, <<"q">>, <<>>, 1), <<"a">>, None, 1)),
        <<"q">>, <<>>, 2)

\* the clock value of the latest update of a record of s, 1 when there is none
LatestOf(s) ==
    LET times == {s.conversations[i].updatedAt : i \in 1..Len(s.conversations)} \cup {1}
    IN  CHOOSE x \in times : \A y \in times : y <= x

NoOp == [op |-> "init", before |-> InitialStore, prevOp |-> "init",
         prevBefore |-> InitialStore, count |-> 0]

-----------------------------------------------------------------------------
(* Spec: the application. Two calls of handleSubmit, the conversation      *)
(* controls and the clock; each read returns whole frames.                 *)

Init ==
    /\ store = InitialStore
    /\ clock = 1
    /\ turns = [t \in Turns |-> IdleTurn]
    /\ clicks = 0
    /\ last = NoOp

Next ==
    \/ \E t \in Turns : Submit(t, <<"q">>, <<>>, <<>>)
    \/ \E t \in Turns, sc \in AppScripts : StreamAccepted(t, sc)
    \/ \E t \in Turns : StreamRejected(t, "status")
    \/ \E t \in Turns : \E n \in WholeFrames(turns[t].wire) : ReadChunk(t, n)
    \/ \E t \in Turns : ReadDone(t)
    \/ \E t \in Turns : ReadThrows(t)
    \/ \E t \in Turns : FallbackOk(t, [response |-> <<"a">>, reasoning |-> None])
    \/ \E t \in Turns : FallbackFailed(t)
    \/ StartNewChat
    \/ \E id \in 1..MaxClock : LoadConversation(id)
    \/ DeleteConversation
    \/ Tick

Spec == Init /\ [][Next]_vars

-----------------------------------------------------------------------------
(* SpecStream: one call of handleSubmit with nobody else writing the       *)
(* store; every response body of StreamScripts, read in every way.         *)

InitStream ==
    /\ store \in {InitialStore, StaleStore}
    /\ clock = 1
    /\ turns = [t \in Turns |-> IdleTurn]
    /\ clicks = 0
    /\ last = [NoOp EXCEPT !.before = store]

NextStream ==
    \/ \E i \in Inputs, p \in PendingImages, d \in DocumentContexts : Submit(1, i, p, d)
    \/ \E sc \in StreamScripts : StreamAccepted(1, sc)
    \/ \E why \in Rejections : StreamRejected(1, why)
    \/ \E n \in 1..Len(turns[1].wire) : ReadChunk(1, n)
    \/ ReadDone(1)
    \/ ReadThrows(1)
    \/ \E json \in FallbackReplies : FallbackOk(1, json)
    \/ FallbackFailed(1)

SpecStream == InitStream /\ [][NextStream]_vars

-----------------------------------------------------------------------------
(* SpecStore: the operations of the store called in any order, from the    *)
(* stores of StoreStarts.                                                  *)

SearchCall == [id |-> "call1", name |-> "search", status |-> "calling", result |-> None]

ContentBuffers == {<<>>, <<" ">>, <<" ", "x", NL>>}
ReasoningBuffers == {<<>>, <<NL>>, <<"r">>}
ToolCallBuffers == {<<>>, <<SearchCall>>}

\* the stores of InitialStore and StaleStore with something in the buffers
StoreStarts ==
    {[s EXCEPT !.streamingContent = c,
               !.streamingReasoning = r,
               !.streamingToolCalls = tcs,
               !.isStreaming = streaming] :
        s \in {InitialStore, StaleStore, TwoChatStore},
        c \in ContentBuffers,
        r \in ReasoningBuffers,
        tcs \in ToolCallBuffers,
        streaming \in BOOLEAN}

\* one call of a store operation that leaves the store s1
StoreOp(name, s1) ==
    /\ last.count < MaxOps
    /\ store' = s1
    /\ last' = [op |-> name, before |-> store, prevOp |-> last.op,
                prevBefore |-> last.before, count |-> last.count + 1]
    /\ UNCHANGED <<clock, turns, clicks>>

OpSetLoading(v) == StoreOp("setLoading", setLoading(store, v))
OpSetStreaming(v) == StoreOp("setStreaming", setStreaming(store, v))
OpAppendContent(chunk) == StoreOp("appendContent", appendContent(store, chunk))
OpAppendReasoning(chunk) == StoreOp("appendReasoning", appendReasoning(store, chunk))
OpAddToolCall(tc) == StoreOp("addToolCall", addToolCall(store, tc))
OpUpdateToolCall(name, status, result) ==
    StoreOp("updateToolCall", updateToolCall(store, name, status, result))
OpAddUserMessage(content, attachments) ==
    StoreOp("addUserMessage", addUserMessage(store, content, attachments, clock))
OpAddAiMessage(content, thinking) ==
    StoreOp("addAiMessage", addAiMessage(store, content, thinking, clock))
OpFinalizeStream == StoreOp("finalizeStream", finalizeStream(store, clock))
OpStartNewChat == StoreOp("startNewChat", startNewChat(store))
OpLoadConversation(id) == StoreOp("loadConversation", loadConversation(store, id))
OpDeleteConversation(id) == StoreOp("deleteConversation", deleteConversation(store, id))
OpRenameConversation(id, title) ==
    StoreOp("renameConversation", renameConversation(store, id, title, clock))

\* the state is saved by the last set and the page is loaded again
OpReload == StoreOp("reload", Rehydrate(Persisted(store)))

\* the titles given to renameConversation
RenameTitles == {[text |-> "renamed", hhmm |-> 0], [text |-> "", hhmm |-> 0]}

InitStore ==
    /\ store \in StoreStarts
    /\ clock = LatestOf(store)
    /\ turns = [t \in Turns |-> IdleTurn]
    /\ clicks = 0
    /\ last = [NoOp EXCEPT !.before = store, !.prevBefore = store]

NextStore ==
    \/ \E v \in BOOLEAN : OpSetLoading(v)
    \/ \E v \in BOOLEAN : OpSetStreaming(v)
    \/ \E chunk \in {<<"x">>, <<" ">>} : OpAppendContent(chunk)
    \/ OpAppendReasoning(<<"r">>)
    \/ OpAddToolCall(SearchCall)
    \/ OpUpdateToolCall("search", "completed", Some(<<"found">>))
    \/ OpAddUserMessage(<<"q">>, <<>>)
    \/ OpAddAiMessage(<<"a">>, None)
    \/ OpFinalizeStream
    \/ OpStartNewChat
    \/ \E id \in 1..MaxClock : OpLoadConversation(id)
    \/ \E id \in 1..MaxClock : OpDeleteConversation(id)
    \/ \E id \in 1..MaxClock, title \in RenameTitles : OpRenameConversation(id, title)
    \/ OpReload
    \/ Tick

SpecStore == InitStore /\ [][NextStore]_vars

-----------------------------------------------------------------------------
(* Claims about finalizeStream, under SpecStore                            *)

\* some text or some tool call is in the buffers, blank text included
AnythingBuffered(s) ==
    \/ s.streamingContent # <<>>
    \/ s.streamingReasoning # <<>>
    \/ s.streamingToolCalls # <<>>

\* the last two operations were both finalizeStream
FinalizedTwice == last.op = "finalizeStream" /\ last.prevOp = "finalizeStream"

\* C4 as stated: two calls of finalizeStream in a row append exactly one assistant
\* message when something was buffered before the first, none otherwise, and the
\* second call leaves the store unchanged.
C4_AsStated ==
    FinalizedTwice =>
        /\ store = last.before
        /\ Len(store.messages) = Len(last.prevBefore.messages)
                                   + (IF AnythingBuffered(last.prevBefore) THEN 1 ELSE 0)

\* C4 amended: two calls of finalizeStream in a row append exactly one assistant
\* message when the trimmed content or the trimmed reasoning buffer was not empty or
\* a tool call was buffered before the first, none otherwise (buffers of white space
\* alone count as nothing), and the second call leaves the store unchanged.
C4_FinalizeIdempotent ==
    FinalizedTwice =>
        /\ store = last.before
        /\ IF \/ Trim(last.prevBefore.streamingContent) # <<>>
              \/ Trim(last.prevBefore.streamingReasoning) # <<>>
              \/ last.prevBefore.streamingToolCalls # <<>>
           THEN /\ Len(store.messages) = Len(last.prevBefore.messages) + 1
                /\ store.messages[Len(store.messages)].role = "ai"
                /\ SubSeq(store.messages, 1, Len(last.prevBefore.messages))
                       = last.prevBefore.messages
           ELSE store.messages = last.prevBefore.messages

\* two calls in a row, the first of which had text to flush
C4_Witness ==
    /\ FinalizedTwice
    /\ Trim(last.prevBefore.streamingContent) # <<>>
    /\ Len(store.messages) = Len(last.prevBefore.messages) + 1
    /\ store = last.before

\* C5 as stated: when the content buffer and the reasoning buffer are both empty
\* at the call of finalizeStream, no message is appended.
C5_AsStated ==
    (/\ last.op = "finalizeStream"
     /\ last.before.streamingContent = <<>>
     /\ last.before.streamingReasoning = <<>>)
        => store.messages = last.before.messages

\* C5 amended: when the content buffer, the reasoning buffer and the tool-call
\* buffer are all empty at the call of finalizeStream, no message is appended
\* (and the call changes nothing).
C5_EmptyBuffersNoMessage ==
    (/\ last.op = "finalizeStream"
     /\ last.before.streamingContent = <<>>
     /\ last.before.streamingReasoning = <<>>
     /\ last.before.streamingToolCalls = <<>>)
        => /\ store.messages = last.before.messages
           /\ store = last.before

\* finalizeStream was called with all three buffers empty, while streaming
C5_Witness ==
    /\ last.op = "finalizeStream"
    /\ last.before.streamingContent = <<>>
    /\ last.before.streamingReasoning = <<>>
    /\ last.before.streamingToolCalls = <<>>
    /\ last.before.isStreaming

-----------------------------------------------------------------------------
(* Claims about one turn, under SpecStream                                 *)

\* the call of handleSubmit that SpecStream follows
Turn == turns[1]

\* the stream was accepted and the call returned without a fallback request
StreamedToTheEnd ==
    Turn.pc = "returned" /\ Turn.response = "accepted" /\ Len(Turn.requests) = 1

\* the chunks of the frames of one type among the first k frames, concatenated
ChunksOf(script, type, k) ==
    Concat([i \in 1..k |-> IF script[i].type = type THEN script[i].content ELSE <<>>])

\* the content chunks as handleSubmit hands them to appendContent
StrippedChunksOf(script, k) ==
    Concat([i \in 1..k |-> IF script[i].type = "content"
                           THEN stripThinkingTags(script[i].content) ELSE <<>>])

\* C1 as stated: every turn appends exactly one assistant message, on every path.
C1_AsStated ==
    Turn.pc = "returned" => Len(Turn.produced) = 1 /\ Turn.produced[1].role = "ai"

\* C7 as stated: when a turn completes, isLoading and isStreaming are both false.
C7_AsStated ==
    Turn.pc = "returned" => ~store.isLoading /\ ~store.isStreaming

\* the frames handled so far all carry reasoning or content text
HandledText ==
    /\ Len(Turn.events) <= Len(Turn.script)
    /\ \A i \in 1..Len(Turn.events) : Turn.script[i].type \in {"reasoning", "content"}

\* the frames handled so far are the first frames of the body, once each and in order
HandledInOrder ==
    /\ Len(Turn.events) <= Len(Turn.script)
    /\ \A i \in 1..Len(Turn.events) :
           /\ Turn.events[i].type = Turn.script[i].type
           /\ Turn.events[i].content = Turn.script[i].content

\* the handled frames, the text kept in the buffer and the text not yet read
\* make up the response text, and the buffer holds no complete frame
NothingLostOrRepeated ==
    /\ HandledInOrder
    /\ EncodeFrames(SubSeq(Turn.script, 1, Len(Turn.events))) \o Turn.buffer \o Turn.wire
           = EncodeFrames(Turn.script)
    /\ DelimiterAt(Turn.buffer) = 0

\* C3 as stated: however the response text is split into reads, the reasoning and
\* the content buffer equal the concatenation of the respective chunks in arrival
\* order, and no frame is lost or processed twice.
C3_AsStated ==
    (Turn.pc = "reading" /\ HandledText) =>
        /\ NothingLostOrRepeated
        /\ store.streamingReasoning
               = ChunksOf(Turn.script, "reasoning", Len(Turn.events))
        /\ store.streamingContent
               = ChunksOf(Turn.script, "content", Len(Turn.events))

\* C3: however the response text is split into reads (inside a frame or inside
\* the delimiter included), the reasoning buffer equals the concatenation of the
\* reasoning chunks handled so far and the content buffer equals the concatenation
\* of the content chunks handled so far, each with its thinking tags removed;
\* no frame is lost or processed twice.
C3_ChunkBoundaryIndependence ==
    (Turn.pc = "reading" /\ HandledText) =>
        /\ NothingLostOrRepeated
        /\ store.streamingReasoning
               = ChunksOf(Turn.script, "reasoning", Len(Turn.events))
        /\ store.streamingContent = StrippedChunksOf(Turn.script, Len(Turn.events))

\* two frames are handled, both buffers hold text, and a read has ended inside
\* the third frame
C3_Witness ==
    /\ Turn.pc = "reading"
    /\ HandledText
    /\ Len(Turn.events) = 2
    /\ Len(Turn.script) = 3
    /\ Turn.buffer # <<>>
    /\ Turn.wire # <<>>
    /\ store.streamingReasoning # <<>>
    /\ store.streamingContent # <<>>

\* reasoning frames, then content frames, then a done frame
ReasoningContentDone(script) ==
    \E a \in 1..Len(script), b \in 1..Len(script) :
        /\ Len(script) = a + b + 1
        /\ \A i \in 1..a : script[i].type = "reasoning"
        /\ \A i \in (a + 1)..(a + b) : script[i].type = "content"
        /\ script[a + b + 1].type = "done"
        /\ \A i \in 1..(a + b) : stripThinkingTags(script[i].content) = script[i].content

\* the text of an optional field, empty when the field is undefined
TextOf(opt) == IF opt = None THEN <<>> ELSE opt[1]

AllReasoning(script) == ChunksOf(script, "reasoning", Len(script))
AllContent(script) == ChunksOf(script, "content", Len(script))

\* C2 as stated: after reasoning frames, content frames and a done frame the turn
\* has produced one assistant message whose thinking is the trimmed reasoning and
\* whose content is the trimmed content.
C2_AsStated ==
    (StreamedToTheEnd /\ ReasoningContentDone(Turn.script)) =>
        /\ Len(Turn.produced) = 1
        /\ Turn.produced[1].role = "ai"
        /\ TextOf(Turn.produced[1].thinking) = Trim(AllReasoning(Turn.script))
        /\ Turn.produced[1].content = Trim(AllContent(Turn.script))

\* C2: after reasoning frames, content frames (without thinking markup) and a done
\* frame, the turn has produced no message when the reasoning and the content are
\* both blank; otherwise it has produced one assistant message, whose thinking is
\* the trimmed reasoning (undefined when that is empty) and whose content is the
\* trimmed content ("(No content)" when that is empty).
C2_StreamedMessage ==
    (StreamedToTheEnd /\ ReasoningContentDone(Turn.script)) =>
        LET R == Trim(AllReasoning(Turn.script))
            C == Trim(AllContent(Turn.script))
        IN  IF R = <<>> /\ C = <<>> THEN Turn.produced = <<>>
            ELSE /\ Len(Turn.produced) = 1
                 /\ Turn.produced[1].role = "ai"
                 /\ Turn.produced[1].thinking = (IF R = <<>> THEN None ELSE Some(R))
                 /\ Turn.produced[1].content = (IF C = <<>> THEN NoContent ELSE C)

\* a reasoning frame, a content frame, a blank content frame and a done frame
\* have produced the message with the trimmed text
C2_Witness ==
    /\ StreamedToTheEnd
    /\ Turn.script = <<ReasoningFrame, ContentFrame, BlankFrame, DoneFrame>>
    /\ Len(Turn.produced) = 1
    /\ Turn.produced[1].thinking = Some(<<"r">>)
    /\ Turn.produced[1].content = <<"x">>

\* C6 as stated: "<thinking>X</thinking>Y" streamed as content, in one frame or
\* split over several, with no reasoning frame, is finalized as thinking "X" and
\* content "Y".
C6_AsStated ==
    (StreamedToTheEnd /\ Turn.script \in MarkupScripts) =>
        /\ Len(Turn.produced) = 1
        /\ Turn.produced[1].thinking = Some(<<"X">>)
        /\ Turn.produced[1].content = <<"Y">>

\* the streaming endpoint answered with a non-success status or without a body
Rejected == Turn.response \in {"status", "nobody"}

\* C9: when the streaming endpoint answers with a non-success status or without a
\* body, exactly one fallback request goes to /api/chat with the body of the stream
\* request, isStreaming is not set, no frame is handled and the streaming buffers
\* are what they were when the turn began.
C9_FallbackOnRejectedStream ==
    (Turn.pc = "awaitStream" \/ Rejected) =>
        /\ ~store.isStreaming
        /\ Turn.events = <<>>
        /\ store.streamingContent = last.before.streamingContent
        /\ store.streamingReasoning = last.before.streamingReasoning
        /\ store.streamingToolCalls = last.before.streamingToolCalls
        /\ Turn.requests[1].endpoint = "/api/chat/stream"
        /\ Rejected =>
               /\ Len(Turn.requests) = 2
               /\ Turn.requests[2].endpoint = "/api/chat"
               /\ Turn.requests[2].body = Turn.requests[1].body

\* a turn that began with text left in the content buffer was answered without a
\* body and has returned after its fallback request
C9_Witness ==
    /\ Turn.response = "nobody"
    /\ Turn.pc = "returned"
    /\ Len(Turn.requests) = 2
    /\ Turn.requests[2].body.document_context # <<>>
    /\ last.before.streamingContent # <<>>
    /\ Len(Turn.produced) = 1

\* the handled lines that were error frames
ErrorEvents == {i \in 1..Len(Turn.events) : Turn.events[i].type = "error"}

\* C10 as stated: the message appended for an error frame with text E has
\* content E.
C10_AsStated ==
    \A i \in ErrorEvents :
        /\ Len(Turn.events[i].appended) = 1
        /\ Turn.events[i].appended[1].content = Turn.events[i].content

\* C10: the message appended for an error frame with text E is one assistant
\* message without thinking whose content is "Error: " followed by E.
C10_ErrorFrameMessage ==
    \A i \in ErrorEvents :
        /\ Turn.script[i] = ErrorFrame
        /\ Len(Turn.events[i].appended) = 1
        /\ Turn.events[i].appended[1].role = "ai"
        /\ Turn.events[i].appended[1].thinking = None
        /\ Turn.events[i].appended[1].content = <<"Error: ">> \o ErrorFrame.content

\* an error frame was handled after buffered text
C10_Witness ==
    /\ ErrorEvents # {}
    /\ \E i \in ErrorEvents : i > 1 /\ Turn.events[i].content = <<"e">>

-----------------------------------------------------------------------------
(* Claims about the application, under Spec                                *)

-----------------------------------------------------------------------------
(* Claims about failed streams, under SpecStream                           *)

\* C11 as stated: once an error frame has been processed, the turn issues no
\* fallback request, whatever happens to the response body afterwards.
C11_AsStated ==
    ErrorEvents # {} => Len(Turn.requests) = 1

\* the last message the turn has appended
LastProduced == Turn.produced[Len(Turn.produced)]

\* C12 as stated: after an error frame has been processed, neither the frames
\* that arrive later nor the text buffered before it change the buffers or the
\* message list: the error message is the last message the turn appends.
C12_AsStated ==
    (ErrorEvents # {} /\ Len(Turn.requests) = 1) =>
        /\ Turn.produced # <<>>
        /\ LastProduced.content = ErrorMessage(ErrorFrame.content)
        /\ Turn.events[1].type = "error" =>
               store.streamingContent = <<>> /\ store.streamingReasoning = <<>>

\* the requests of the turn: the streaming request, then at most one fallback
RequestsInOrder ==
    /\ Len(Turn.requests) <= 2
    /\ Turn.pc # "idle" => /\ Len(Turn.requests) >= 1
                           /\ Turn.requests[1].endpoint = "/api/chat/stream"
    /\ Len(Turn.requests) = 2 => Turn.requests[2].endpoint = "/api/chat"

\* the synthetic message of a failed fallback
FailureMessage == Msg("ai", FallbackFailure, None, <<>>, <<>>)

\* C14: a turn issues at most one streaming request and then at most one fallback
\* request; a failed fallback appends exactly one message, the connection-failure
\* text, and handleSubmit returns; after it has returned it issues no request.
C14_OneRequestEach ==
    /\ []RequestsInOrder
    /\ [][FallbackFailed(1) =>
             /\ turns'[1].produced = Append(Turn.produced, FailureMessage)
             /\ store'.messages = Append(store.messages, FailureMessage)
             /\ turns'[1].pc = "returned"
             /\ turns'[1].requests = Turn.requests]_vars
    /\ [][Turn.pc = "returned" => turns'[1].requests = Turn.requests]_vars

\* the streaming request was refused by the network, the fallback failed too,
\* and the turn has returned with the connection-failure message
C14_Witness ==
    /\ Turn.pc = "returned"
    /\ Turn.response = "network"
    /\ Len(Turn.requests) = 2
    /\ Turn.produced = <<FailureMessage>>
    /\ ~store.isLoading /\ ~store.isStreaming

-----------------------------------------------------------------------------
(* Claims about overlapping turns, under Spec                              *)

\* the stream of call t was accepted and a read of its body threw
FellBackMidStream(t) ==
    turns[t].response = "accepted" /\ Len(turns[t].requests) = 2

\* a message with the streamed text "x" is among those call t appended
ProducedStreamedText(t) ==
    \E i \in 1..Len(turns[t].produced) : turns[t].produced[i].content = ContentFrame.content

\* C13 as stated: when a read throws after chunks were buffered, the partially
\* streamed text appears in no message of this turn or of any later turn.
\* Here the stream that broke carried one content frame and no done frame,
\* and the later turn's own stream carried no text at all.
C13_AsStated ==
    \A t \in Turns, u \in Turns :
        (/\ FellBackMidStream(t)
         /\ turns[t].script = <<ContentFrame>>
         /\ u >= t
         /\ u # t => turns[u].script = <<>>)
        => ~ProducedStreamedText(u)

\* call t of handleSubmit has not returned yet
InFlight(t) == turns[t].pc \in {"awaitStream", "reading", "awaitFallback"}

\* C15 as stated: whenever isLoading and isStreaming are both false no earlier
\* turn is still reading its response body, so a new submit never overlaps a
\* reader that can still append to the buffers or call finalizeStream.
C15_AsStated ==
    /\ (~store.isLoading /\ ~store.isStreaming) => \A t \in Turns : turns[t].pc # "reading"
    /\ ~(turns[1].pc = "reading" /\ InFlight(2))

-----------------------------------------------------------------------------
(* Claims about the conversation records, under SpecStore                  *)

\* the number of records of s that carry the id
RecordsWith(s, id) ==
    Cardinality({i \in 1..Len(s.conversations) : s.conversations[i].id = id})

\* the record of s with the id, when there is exactly one
RecordOf(s, id) == s.conversations[FindIndex(s.conversations, id)]

\* C16 as stated: addUserMessage with no current conversation adds exactly one
\* record and makes its id current; addUserMessage with a current conversation
\* leaves the number of records unchanged and updates the record with that id.
C16_AsStated ==
    last.op = "addUserMessage" =>
        IF last.before.currentConversationId = Null
        THEN /\ Len(store.conversations) = Len(last.before.conversations) + 1
             /\ store.currentConversationId # Null
             /\ RecordsWith(store, store.currentConversationId) = 1
             /\ RecordsWith(last.before, store.currentConversationId) = 0
        ELSE /\ Len(store.conversations) = Len(last.before.conversations)
             /\ store.currentConversationId = last.before.currentConversationId
             /\ RecordsWith(store, store.currentConversationId) = 1
             /\ RecordOf(store, store.currentConversationId).messages = store.messages

\* what one call deleteConversation(id) does to the store
DeleteEffect(id) ==
    /\ RecordsWith(store', id) = 0
    /\ store'.conversations = SelectSeq(store.conversations, LAMBDA c : c.id # id)
    /\ IF store.currentConversationId = id
       THEN /\ store'.messages = <<greeting>>
            /\ store'.currentConversationId = Null
       ELSE /\ store'.messages = store.messages
            /\ store'.currentConversationId = store.currentConversationId
            /\ store'.isLoading = store.isLoading
            /\ store'.isStreaming = store.isStreaming
            /\ store'.streamingContent = store.streamingContent
            /\ store'.streamingReasoning = store.streamingReasoning
            /\ store'.streamingToolCalls = store.streamingToolCalls

\* C17: deleteConversation(id) removes the record with that id and keeps the
\* others; when id is current the active messages become the single greeting and
\* the current id is cleared; otherwise the active messages, the current id, the
\* flags and the streaming buffers are unchanged.
C17_DeleteConversation ==
    [][\A id \in 1..MaxClock : OpDeleteConversation(id) => DeleteEffect(id)]_vars

\* a conversation that is not the current one was deleted while a stream was
\* buffering text
C17_Witness ==
    /\ last.op = "deleteConversation"
    /\ Len(last.before.conversations) = 2
    /\ Len(store.conversations) = 1
    /\ store.currentConversationId # Null
    /\ store.isStreaming
    /\ store.streamingContent # <<>>

\* C18: the conversation records have pairwise distinct ids, and
\* currentConversationId is null or the id of a record of the collection.
C18_UniqueIdsAndCurrent ==
    /\ \A i \in 1..Len(store.conversations), j \in 1..Len(store.conversations) :
           i # j => store.conversations[i].id # store.conversations[j].id
    /\ \/ store.currentConversationId = Null
       \/ RecordsWith(store, store.currentConversationId) = 1

\* a new conversation was added next to an existing one, after the clock had
\* moved on, and is the current one
C18_Witness ==
    /\ last.op \in {"addUserMessage", "addAiMessage", "finalizeStream"}
    /\ last.before.currentConversationId = Null
    /\ Len(last.before.conversations) = 1
    /\ Len(store.conversations) = 2
    /\ store.currentConversationId = store.conversations[2].id

\* C19: whenever currentConversationId is not null, the record with that id
\* holds exactly the active message list.
C19_CurrentRecordMatches ==
    store.currentConversationId # Null =>
        /\ RecordsWith(store, store.currentConversationId) = 1
        /\ RecordOf(store, store.currentConversationId).messages = store.messages

\* another conversation was loaded and an assistant message appended to it
C19_Witness ==
    /\ last.prevOp = "loadConversation"
    /\ last.op \in {"addAiMessage", "finalizeStream"}
    /\ last.prevBefore.currentConversationId # Null
    /\ last.prevBefore.currentConversationId # store.currentConversationId
    /\ Len(store.messages) = Len(last.before.messages) + 1
    /\ Len(store.conversations) = 2

\* the id of the record an append writes: the current id, or a new id
AppendTarget ==
    IF store.currentConversationId # Null THEN store.currentConversationId
    ELSE ChatId(clock)

\* an append keeps every record; the records it does not write are unchanged
\* and the record it writes gets the title
AppendTitles(title(_)) ==
    \A i \in 1..Len(store.conversations) :
        LET r == store.conversations[i]
        IN  /\ RecordsWith(store', r.id) = 1
            /\ IF r.id = AppendTarget
               THEN RecordOf(store', r.id).title = title(r)
               ELSE RecordOf(store', r.id) = r

\* existing?.title || 'Untitled chat' on a record
KeptTitle(r) == IF r.title.text = "" THEN UntitledChat ELSE r.title

\* the title addUserMessage gives the record it writes
UserMessageTitle(r) ==
    IF UserCount(store.messages) = 0 THEN generatePlaceholderTitle(clock)
    ELSE KeptTitle(r)

\* one of the three appends is called
AppendStep ==
    \/ \E c \in {<<"q">>} : OpAddUserMessage(c, <<>>)
    \/ \E c \in {<<"a">>} : OpAddAiMessage(c, None)
    \/ OpFinalizeStream

\* C20 as stated: once a record exists no addUserMessage, addAiMessage or
\* finalizeStream changes its title.
C20_AsStated ==
    [][AppendStep =>
          \A i \in 1..Len(store.conversations) :
              /\ RecordsWith(store', store.conversations[i].id) = 1
              /\ RecordOf(store', store.conversations[i].id).title
                     = store.conversations[i].title]_vars

\* C20: an append changes no title except on the record it writes (the current
\* conversation, or the record whose id equals the new id when none is current).
\* On that record addUserMessage sets the placeholder title when the active list
\* holds no user message yet; otherwise the three appends keep a non-empty title
\* and replace an empty one by "Untitled chat".
C20_TitleOnAppend ==
    /\ [][OpAddUserMessage(<<"q">>, <<>>) => AppendTitles(UserMessageTitle)]_vars
    /\ [][OpAddAiMessage(<<"a">>, None) => AppendTitles(KeptTitle)]_vars
    /\ [][(OpFinalizeStream /\ HasBuffered(store)) => AppendTitles(KeptTitle)]_vars

\* a renamed conversation has received a user message and kept its title
C20_Witness ==
    /\ last.prevOp = "renameConversation"
    /\ last.op = "addUserMessage"
    /\ store.currentConversationId # Null
    /\ RecordOf(store, store.currentConversationId).title.text = "renamed"
    /\ RecordOf(last.prevBefore, store.currentConversationId).title.text = "New chat"

-----------------------------------------------------------------------------
(* Claims about the life of a conversation record, under Spec              *)

\* C21 as stated: a record enters the collection only through addUserMessage:
\* whenever the collection grows, the step is the addUserMessage of a submit and
\* the new record ends with that user message.
C21_AsStated ==
    [][Len(store'.conversations) > Len(store.conversations) =>
          LET r == store'.conversations[Len(store'.conversations)]
          IN  r.messages[Len(r.messages)].role = "user"]_vars

-----------------------------------------------------------------------------
(* Claims about persistence, under SpecStore                               *)

\* C22 as stated: the persisted record holds only messages, conversations and
\* currentConversationId, and after a reload isLoading and isStreaming are false
\* and the three buffers are empty.
C22_AsStated ==
    last.op = "reload" =>
        /\ DOMAIN Persisted(last.before).state
               = {"messages", "conversations", "currentConversationId"}
        /\ ~store.isLoading
        /\ ~store.isStreaming
        /\ store.streamingContent = <<>>
        /\ store.streamingReasoning = <<>>
        /\ store.streamingToolCalls = <<>>

-----------------------------------------------------------------------------
(* SpecImages: user messages with image attachments are added to the store *)

\* the attachments of one message
ImageLists ==
    {<<"img1", "img2", "img3">>, <<"img3", "img4", "img5">>, <<"img6", "img7">>,
     <<"img2", "img1">>, <<>>}

\* the pending images handed to buildImageContext
PendingLists == {<<>>, <<"img1">>, <<"img8", "img3">>, <<"img8", "img8">>}

\* MentorChat.tsx 205-208: a message with attachments is added
SendImages(atts) ==
    /\ UserCount(store.messages) < MaxSends
    /\ store' = addUserMessage(store, <<"q">>, atts, clock)
    /\ last' = [op |-> "addUserMessage", before |-> store, prevOp |-> last.op,
                prevBefore |-> last.before, count |-> last.count + 1]
    /\ UNCHANGED <<clock, turns, clicks>>

InitImages ==
    /\ store = InitialStore
    /\ clock = 1
    /\ turns = [t \in Turns |-> IdleTurn]
    /\ clicks = 0
    /\ last = NoOp

NextImages == \E atts \in ImageLists : SendImages(atts)

SpecImages == InitImages /\ [][NextImages]_vars

\* the attachments of the stored messages followed by the pending ones
CombinedImages(pending) ==
    Concat([i \in 1..Len(store.messages) |-> store.messages[i].attachments]) \o pending

\* the position at which an image is first seen
FirstSeen(all, x) == Min({i \in 1..Len(all) : all[i] = x})

\* the images of a list
ImagesOf(all) == {all[i] : i \in 1..Len(all)}

\* what the claim says of one call buildImageContext(pending)
ImageContextOk(pending) ==
    LET all == CombinedImages(pending)
        ctx == buildImageContext(store, pending)
        kept == ImagesOf(ctx)
    IN  /\ kept \subseteq ImagesOf(all)
        /\ Cardinality(kept) = Len(ctx)
        /\ \A i \in 1..Len(ctx), j \in 1..Len(ctx) :
               i < j => FirstSeen(all, ctx[i]) < FirstSeen(all, ctx[j])
        /\ Len(ctx) = IF Cardinality(ImagesOf(all)) > 6 THEN 6
                      ELSE Cardinality(ImagesOf(all))
        /\ \A x \in ImagesOf(all) \ kept, y \in kept :
               FirstSeen(all, x) < FirstSeen(all, y)
        /\ all = <<>> => ctx = <<>>

\* C23: buildImageContext(pending) describes each image once, in first-seen
\* order over the stored messages followed by the pending list; with more than
\* 6 distinct images it keeps the last 6 of that order; with none it is empty.
C23_ImageContext == \A pending \in PendingLists : ImageContextOk(pending)

\* eight distinct images, one of them both stored and pending: the context
\* keeps the last six
C23_Witness ==
    /\ Cardinality(ImagesOf(CombinedImages(<<"img8", "img3">>))) = 8
    /\ buildImageContext(store, <<"img8", "img3">>)
           = <<"img3", "img4", "img5", "img6", "img7", "img8">>

-----------------------------------------------------------------------------
(* Claims about the end of a stream, under SpecStream                      *)

\* the three streaming buffers of the store are empty
BuffersEmpty ==
    /\ store.streamingContent = <<>>
    /\ store.streamingReasoning = <<>>
    /\ store.streamingToolCalls = <<>>

\* C24 as stated: the buffers are empty when an accepted stream starts and empty
\* again when the turn has completed, on every path. Here the turn began with
\* empty buffers.
C24_AsStated ==
    /\ (Turn.pc = "reading" /\ Turn.events = <<>>) => BuffersEmpty
    /\ (Turn.pc = "returned" /\ ~AnythingBuffered(last.before)) => BuffersEmpty

-----------------------------------------------------------------------------
(* SpecExtract: finalizeStream applied to buffered content built from      *)
(* thinking tags, text and blanks, with and without streamed reasoning.    *)

OpenTag == <<"<", "thinking", ">">>
OpenTagUpper == <<"<", "THINKING", ">">>
CloseTag == <<"<", "/", "thinking", ">">>

MarkupSegments == {OpenTag, OpenTagUpper, CloseTag, <<"X">>, <<" ">>}

\* the texts of at most MaxSegments segments
MarkupTexts ==
    {Concat(segs) : segs \in UNION {[1..n -> MarkupSegments] : n \in 0..MaxSegments}}

InitExtract ==
    /\ store \in {[InitialStore EXCEPT !.streamingContent = c,
                                       !.streamingReasoning = r,
                                       !.isStreaming = TRUE] :
                      c \in MarkupTexts, r \in {<<>>, <<"r">>}}
    /\ clock = 1
    /\ turns = [t \in Turns |-> IdleTurn]
    /\ clicks = 0
    /\ last = [NoOp EXCEPT !.before = store, !.prevBefore = store]

NextExtract == last.count = 0 /\ OpFinalizeStream

SpecExtract == InitExtract /\ [][NextExtract]_vars

\* finalizeStream has run on a store with no streamed reasoning whose trimmed
\* content holds thinking markup
Extracted ==
    /\ last.op = "finalizeStream"
    /\ Trim(last.before.streamingReasoning) = <<>>
    /\ HasSpan(Trim(last.before.streamingContent))

\* the message finalizeStream appended
FinalizedMessage == store.messages[Len(store.messages)]

\* the content field for a final text: the placeholder when nothing is left
ContentField(text) == IF Trim(text) = <<>> THEN NoContent ELSE Trim(text)

\* the reasoning is the trimmed inner text of the first span
ReasoningIsFirstSpan ==
    LET inner == Trim(SpanInner(Trim(last.before.streamingContent)))
    IN  FinalizedMessage.thinking = IF inner = <<>> THEN None ELSE Some(inner)

\* C25 as stated: with no streamed reasoning and markup in the trimmed content,
\* finalizeStream takes the inner text of the first span as the reasoning and
\* removes exactly that span; a later span stays in the content.
C25_AsStated ==
    Extracted =>
        /\ ReasoningIsFirstSpan
        /\ FinalizedMessage.content
               = ContentField(RemoveFirstSpan(Trim(last.before.streamingContent)))

\* what the code does: the reasoning is the first span's inner text and every
\* span is removed from the content
C25_EverySpanRemoved ==
    Extracted =>
        /\ ReasoningIsFirstSpan
        /\ FinalizedMessage.content
               = ContentField(RemoveAllSpans(Trim(last.before.streamingContent)))

\* two spans were buffered: the second one is gone from the message
C25_TwoSpans ==
    /\ Extracted
    /\ last.before.streamingContent
           = OpenTag \o <<"X">> \o CloseTag \o OpenTagUpper \o <<"X">> \o CloseTag
    /\ FinalizedMessage.thinking = Some(<<"X">>)
    /\ FinalizedMessage.content = NoContent

-----------------------------------------------------------------------------
(* Claims about the end of the response body, under SpecStream             *)

\* the buffered content or reasoning of s is not blank
NonBlankBuffered(s) ==
    Trim(s.streamingContent) # <<>> \/ Trim(s.streamingReasoning) # <<>>

\* no done frame has been handled
NoDoneYet == \A i \in 1..Len(Turn.events) : Turn.events[i].type # "done"

\* the assistant message that carries the buffered text of s: the trimmed
\* reasoning as thinking and the trimmed content, or, without streamed reasoning,
\* the inner text of the markup as thinking and the content without the markup
BufferedTextMessage(s) ==
    LET c == Trim(s.streamingContent)
        r == Trim(s.streamingReasoning)
    IN  IF r # <<>> \/ ~HasSpan(c)
        THEN Msg("ai", ContentField(c), IF r = <<>> THEN None ELSE Some(r),
                 <<>>, s.streamingToolCalls)
        ELSE Msg("ai", ContentField(RemoveAllSpans(c)),
                 IF Trim(SpanInner(c)) = <<>> THEN None ELSE Some(Trim(SpanInner(c))),
                 <<>>, s.streamingToolCalls)

\* C26: when the body of an accepted stream ends with non-blank buffered content
\* or reasoning and no done frame was handled, one assistant message with the
\* buffered text is appended, the buffers are cleared, isStreaming becomes false,
\* handleSubmit returns and no fallback request is made.
C26_EndOfStreamFinalizes ==
    [][(ReadDone(1) /\ NonBlankBuffered(store) /\ NoDoneYet) =>
          /\ store'.messages = Append(store.messages, BufferedTextMessage(store))
          /\ turns'[1].produced = Append(Turn.produced, BufferedTextMessage(store))
          /\ BuffersEmpty'
          /\ ~store'.isStreaming
          /\ turns'[1].pc = "returned"
          /\ turns'[1].requests = Turn.requests]_vars

\* a reasoning frame and a content frame were streamed and the body ended
\* without a done frame: the turn returned with their text in one message
C26_Witness ==
    /\ Turn.pc = "returned"
    /\ Turn.script = <<ReasoningFrame, ContentFrame>>
    /\ Len(Turn.requests) = 1
    /\ Turn.produced = <<Msg("ai", <<"x">>, Some(<<"r">>), <<>>, <<>>)>>
    /\ BuffersEmpty
    /\ ~store.isStreaming

\* the marked-up text arrived in pieces and the body ended without a done frame
C26_MarkupWitness ==
    /\ Turn.pc = "returned"
    /\ Turn.script = SplitMarkupScript
    /\ Turn.produced = <<Msg("ai", <<"Y">>, Some(<<"X">>), <<>>, <<>>)>>

-----------------------------------------------------------------------------
(* Claims about lines that are skipped, under SpecStream                   *)

\* the line of a frame: its bytes without the delimiter
LineOf(f) == SubSeq(EncodeFrame(f), 1, Len(EncodeFrame(f)) - Len(Delimiter))

\* the frame has no marker or its body fails JSON decoding
IsBadFrame(f) == EventOf(LineOf(f)).type \in {"skipped", "malformed"}

\* the script without the frames that lack the marker or fail decoding
RECURSIVE WithoutBadFrames(_)
WithoutBadFrames(script) ==
    IF script = <<>> THEN <<>>
    ELSE IF IsBadFrame(Head(script)) THEN WithoutBadFrames(Tail(script))
    ELSE <<Head(script)>> \o WithoutBadFrames(Tail(script))

\* the store after the lines of the frames were handled one after the other
RECURSIVE AfterFrames(_, _, _)
AfterFrames(s, script, now) ==
    IF script = <<>> THEN s
    ELSE AfterFrames(HandleLine(s, LineOf(Head(script)), now), Tail(script), now)

\* the store when the stream of the turn was accepted
StoreAtAccept ==
    AcceptStream(setLoading(addUserMessage(last.before, Turn.userMsg, Turn.images, clock), TRUE))

\* the step handles a line that lacks the marker or fails decoding
HandlesBadLine ==
    \E i \in (Len(Turn.events) + 1)..Len(turns'[1].events) :
        turns'[1].events[i].type \in {"skipped", "malformed"}

\* C27: a frame whose body fails JSON decoding, or that lacks the data marker,
\* changes no store state and does not stop the stream: when the body has been
\* read to its end the store is the one the same body without these frames
\* leaves, and the read that handles such a frame issues no fallback request and
\* leaves the turn reading.
C27_BadFramesSkipped ==
    /\ [](StreamedToTheEnd =>
              store = finalizeStream(
                          AfterFrames(StoreAtAccept, WithoutBadFrames(Turn.script), clock),
                          clock))
    /\ [][HandlesBadLine =>
              /\ turns'[1].pc = "reading"
              /\ turns'[1].requests = Turn.requests]_vars

\* a body with an undecodable line between two content frames was read to its
\* end: both chunks are in the one message of the turn
C27_Witness ==
    /\ StreamedToTheEnd
    /\ Turn.script = <<ContentFrame, MalformedFrame, ContentFrame>>
    /\ Turn.events[2].type = "malformed"
    /\ Turn.produced = <<Msg("ai", <<"x", "x">>, None, <<>>, <<>>)>>

\* the same with a line that has no marker
C27_CommentWitness ==
    /\ StreamedToTheEnd
    /\ Turn.script = <<ContentFrame, CommentFrame, ContentFrame>>
    /\ Turn.events[2].type = "skipped"
    /\ Turn.produced = <<Msg("ai", <<"x", "x">>, None, <<>>, <<>>)>>

-----------------------------------------------------------------------------
(* Claims about the tool-call buffer, under SpecStore                      *)

\* the records of the tool-call buffer of s with the given name
ToolCallsNamed(s, name) ==
    {i \in 1..Len(s.streamingToolCalls) : s.streamingToolCalls[i].name = name}

\* C28 as stated: the tool-call buffer holds at most one record per tool name,
\* and after an update for a name the buffer holds a record with that name.
C28_AsStated ==
    /\ Cardinality(ToolCallsNamed(store, "search")) <= 1
    /\ last.op = "updateToolCall" => ToolCallsNamed(store, "search") # {}

\* addToolCall ran for a name that was in the buffer: there are two records now
C28_TwoRecords ==
    /\ last.op = "addToolCall"
    /\ Cardinality(ToolCallsNamed(last.before, "search")) = 1
    /\ Cardinality(ToolCallsNamed(store, "search")) = 2

\* updateToolCall ran on an empty buffer: it is still empty
C28_UpdateAddsNothing ==
    /\ last.op = "updateToolCall"
    /\ last.before.streamingToolCalls = <<>>
    /\ store.streamingToolCalls = <<>>

-----------------------------------------------------------------------------
(* Claims about the conversation a turn writes to, under Spec              *)

\* call t has appended a message in this step
Produces(t) == Len(turns'[t].produced) > Len(turns[t].produced)

\* C29 as stated: the assistant message of a turn is appended to the
\* conversation that received the turn's user message, whatever conversation
\* controls were used while the turn was waiting: the record of that
\* conversation gains the message and no other record changes.
C29_AsStated ==
    [][\A t \in Turns :
          Produces(t) =>
              LET id == turns[t].conversation
                  m == turns'[t].produced[Len(turns'[t].produced)]
              IN  /\ RecordsWith(store, id) = 1
                  /\ RecordsWith(store', id) = 1
                  /\ RecordOf(store', id).messages
                         = Append(RecordOf(store, id).messages, m)
                  /\ Len(store'.conversations) = Len(store.conversations)]_vars

\* New chat was clicked while the first call was reading and time had passed:
\* the answer is in a record of its own, the question in another
C29_AnswerElsewhere ==
    /\ turns[1].pc = "returned"
    /\ Len(turns[1].produced) = 1
    /\ Len(store.conversations) = 2
    /\ RecordsWith(store, turns[1].conversation) = 1
    /\ RecordOf(store, turns[1].conversation).messages
           = <<greeting, Msg("user", <<"q">>, None, <<>>, <<>>)>>
    /\ store.currentConversationId # turns[1].conversation
    /\ RecordOf(store, store.currentConversationId).messages
           = <<greeting, turns[1].produced[1]>>

-----------------------------------------------------------------------------
(* Claims about new conversations, under SpecStore                         *)

\* an operation that appends a message ran with no current conversation
StartedConversation ==
    /\ last.before.currentConversationId = Null
    /\ \/ last.op \in {"addUserMessage", "addAiMessage"}
       \/ last.op = "finalizeStream" /\ HasBuffered(last.before)

\* C30 as stated: when addUserMessage, addAiMessage or finalizeStream runs with
\* no current conversation, every record already in the collection is left as
\* it was and the collection grows by one, also when the clock value of the new
\* id is the one an earlier conversation was created at.
C30_AsStated ==
    StartedConversation =>
        /\ Len(store.conversations) = Len(last.before.conversations) + 1
        /\ \A i \in 1..Len(last.before.conversations) :
               store.conversations[i] = last.before.conversations[i]

\* a conversation was started at the clock value of an existing one: the
\* existing record was replaced and its messages are gone
C30_Overwritten ==
    /\ StartedConversation
    /\ Len(last.before.conversations) = 1
    /\ Len(store.conversations) = 1
    /\ store.conversations[1].id = last.before.conversations[1].id
    /\ Len(last.before.conversations[1].messages) > Len(store.conversations[1].messages)

====
